---- MODULE Spec2Model ----
(***************************************************************************)
(* A model of gpys/__init__.py: the JobServer cluster verification         *)
(* (connect, discover, submit, wait, verdict, shutdown, __del__) and the   *)
(* RinexArchive scan with its filename parsers.                            *)
(***************************************************************************)
EXTENDS Integers, Sequences, FiniteSets, TLC

\* Longest node_list option string read from the configuration file.
MaxRaw == 3
\* Number of cluster_test runs on one JobServer object.
MaxRuns == 2
\* Number of directory entries below the scanned rootdir.
MaxEntries == 3

VARIABLES
    node_list,   \* options['node_list'] after ReadOptions split it
    pc,          \* position of the JobServer's control flow
    caller,      \* who called cluster_test: "__init__" or "external"
    exc,         \* exception propagating out of cluster_test / __init__
    exitStatus,  \* argument of the sys.exit call made, or -1
    failure,     \* which step failed in the current run
    errNode,     \* node named by the ConnectionError of line 509-511
    cluster,     \* self.cluster: a handle id, or 0 for None
    tested,      \* self.tested
    i,           \* loop index of the discover / submit loops
    requested,   \* discover_nodes calls completed in this run
    settled,     \* settle sleeps completed in this run
    jobs,        \* the list jobs of cluster_test
    waited,      \* the wait of lines 512-515 was entered in this run
    nHandles,    \* JobCluster objects created so far
    shutdowns,   \* handle id -> number of shutdown() calls made on it
    runs,        \* cluster_test calls started
    runHandle,   \* handle created by connect in the current run, or 0
    noops,       \* shutdown blocks that found nothing to shut down
    tree,        \* the directory tree below rootdir
    stack,       \* frames of the recursive scan_archive_struct
    result,      \* list returned by the outermost scan_archive_struct
    scanPc,      \* position of the scan
    fileArg,     \* the name handed to a filename parser
    parser,      \* the parser called on it, or "none"
    parsed       \* what the parser returned

clusterVars == <<node_list, pc, caller, exc, exitStatus, failure, errNode,
                 cluster, tested, i, requested, settled, jobs, waited,
                 nHandles, shutdowns, runs, runHandle, noops>>
scanVars == <<tree, stack, result, scanPc>>
classVars == <<fileArg, parser, parsed>>
vars == <<clusterVars, scanVars, classVars>>

(***************************************************************************)
(* ReadOptions: the node_list option.                                      *)
(***************************************************************************)
\* Characters an option string is built from.
OptionChars == {"a", "b", ",", " "}

RawOptions == UNION {[1..n -> OptionChars] : n \in 0..MaxRaw}

RECURSIVE lstrip(_)
lstrip(s) == IF s # <<>> /\ Head(s) = " " THEN lstrip(Tail(s)) ELSE s

RECURSIVE rstrip(_)
rstrip(s) ==
    IF s # <<>> /\ s[Len(s)] = " " THEN rstrip(SubSeq(s, 1, Len(s) - 1)) ELSE s

\* str.strip(' ')
strip(s) == rstrip(lstrip(s))

\* str.split(',')
RECURSIVE split(_)
split(s) ==
    IF \E k \in 1..Len(s) : s[k] = ","
    THEN LET k == CHOOSE k \in 1..Len(s) :
                      s[k] = "," /\ \A m \in 1..(k - 1) : s[m] # ","
         IN  <<SubSeq(s, 1, k - 1)>> \o split(SubSeq(s, k + 1, Len(s)))
    ELSE <<s>>

\* self.options['node_list'].strip(' ').split(',')
ParseNodeList(raw) == split(strip(raw))

(***************************************************************************)
(* JobServer helpers.                                                      *)
(***************************************************************************)
\* The value submit_job_id_node returns when it creates no job.
NoJob == [id |-> <<>>, node |-> <<>>, status |-> "None"]

\* 'InitialTest-{}'.format(node)
JobId(node) == <<"InitialTest-">> \o node

\* A job handle as returned by submit_job_id_node.
NewJob(node) == [id |-> JobId(node), node |-> node, status |-> "Created"]

\* A shutdown guard that also asks for a run without exception.
IsJobClusterOnSuccess(c) == c # 0 /\ exc = "none"

\* isinstance(self.cluster, dispy.JobCluster)
IsJobCluster(c) == c # 0

\* The position of the last element equal to x.
rindex(s, x) ==
    CHOOSE k \in 1..Len(s) : s[k] = x /\ \A m \in (k + 1)..Len(s) : s[m] # x

\* list.index(x): position of the first element equal to x
index(s, x) == CHOOSE k \in 1..Len(s) : s[k] = x /\ \A m \in 1..(k - 1) : s[m] # x

\* cluster.wait() with no timeout returns once no job is pending.
AllResolved(js) == \A k \in 1..Len(js) : js[k].status \in {"Finished", "Terminated"}

\* A loop that ends after its first pass.
LoopDoneAfterFirst(k) == k > 1

\* The loops over self.options['node_list'] end after the last node.
LoopDone(k) == k > Len(node_list)

Handles == 1..MaxRuns

ScanIdle ==
    /\ tree = <<>>
    /\ stack = <<>>
    /\ result = <<>>
    /\ scanPc = "idle"

ClassIdle ==
    /\ fileArg = <<>>
    /\ parser = "idle"
    /\ parsed = <<>>

\* JobServer.__init__ up to the call of cluster_test.
Init ==
    /\ node_list \in {ParseNodeList(raw) : raw \in RawOptions}
    /\ pc = "new"
    /\ caller = "__init__"
    /\ exc = "none"
    /\ exitStatus = -1
    /\ failure = "none"
    /\ errNode = <<>>
    /\ cluster = 0
    /\ tested = FALSE
    /\ i = 1
    /\ requested = 0
    /\ settled = 0
    /\ jobs = <<>>
    /\ waited = FALSE
    /\ nHandles = 0
    /\ shutdowns = [h \in Handles |-> 0]
    /\ runs = 0
    /\ runHandle = 0
    /\ noops = 0
    /\ ScanIdle
    /\ ClassIdle

\* Entry of cluster_test: the locals of a fresh call.
EnterRun(who) ==
    /\ pc' = "connect"
    /\ caller' = who
    /\ runs' = runs + 1
    /\ i' = 1
    /\ requested' = 0
    /\ settled' = 0
    /\ jobs' = <<>>
    /\ waited' = FALSE
    /\ runHandle' = 0
    /\ failure' = "none"
    /\ errNode' = <<>>
    /\ UNCHANGED <<node_list, exc, exitStatus, cluster, tested, nHandles,
                   shutdowns, noops>>

\* __init__ calls self.cluster_test()
InitCall ==
    /\ pc = "new"
    /\ EnterRun("__init__")
    /\ UNCHANGED <<scanVars, classVars>>

\* A caller invokes cluster_test on the constructed object.
ExternalCall ==
    /\ pc = "constructed"
    /\ runs < MaxRuns
    /\ EnterRun("external")
    /\ UNCHANGED <<scanVars, classVars>>

\* An except block that logs the error and falls through.
SysExitLogged(step) ==
    /\ failure' = step
    /\ pc' = "finally"
    /\ UNCHANGED <<exc, exitStatus>>

\* An except block of connect or cluster_test: log, then sys.exit(1); the
\* SystemExit leaves through the finally block of cluster_test.
SysExit(step) ==
    /\ failure' = step
    /\ exc' = "SystemExit"
    /\ exitStatus' = 1
    /\ pc' = "finally"

\* connect: dispy.JobCluster(...) returns a handle.
ConnectOk ==
    /\ pc = "connect"
    /\ nHandles' = nHandles + 1
    /\ cluster' = nHandles + 1
    /\ runHandle' = nHandles + 1
    /\ i' = 1
    /\ pc' = "discover"
    /\ UNCHANGED <<node_list, caller, exc, exitStatus, failure, errNode, tested,
                   requested, settled, jobs, waited, shutdowns, runs, noops>>
    /\ UNCHANGED <<scanVars, classVars>>

\* connect: dispy.JobCluster(...) raises; self.cluster keeps its old value.
ConnectFail ==
    /\ pc = "connect"
    /\ SysExit("connect")
    /\ UNCHANGED <<node_list, caller, errNode, cluster, tested, i, requested,
                   settled, jobs, waited, nHandles, shutdowns, runs, runHandle,
                   noops>>
    /\ UNCHANGED <<scanVars, classVars>>

\* connect: self.cluster.discover_nodes(node) for the i-th node.
DiscoverRequest ==
    /\ pc = "discover"
    /\ ~LoopDone(i)
    /\ requested' = requested + 1
    /\ pc' = "settle"
    /\ UNCHANGED <<node_list, caller, exc, exitStatus, failure, errNode, cluster,
                   tested, i, settled, jobs, waited, nHandles, shutdowns, runs,
                   runHandle, noops>>
    /\ UNCHANGED <<scanVars, classVars>>

\* connect: discover_nodes raises.
DiscoverFail ==
    /\ pc = "discover"
    /\ ~LoopDone(i)
    /\ SysExit("discover")
    /\ UNCHANGED <<node_list, caller, errNode, cluster, tested, i, requested,
                   settled, jobs, waited, nHandles, shutdowns, runs, runHandle,
                   noops>>
    /\ UNCHANGED <<scanVars, classVars>>

\* connect: time.sleep(2*ping_interval) after the discovery request.
Settle ==
    /\ pc = "settle"
    /\ settled' = settled + 1
    /\ i' = i + 1
    /\ pc' = "discover"
    /\ UNCHANGED <<node_list, caller, exc, exitStatus, failure, errNode, cluster,
                   tested, requested, jobs, waited, nHandles, shutdowns, runs,
                   runHandle, noops>>
    /\ UNCHANGED <<scanVars, classVars>>

\* connect returns; cluster_test starts its submit loop.
ConnectReturn ==
    /\ pc = "discover"
    /\ LoopDone(i)
    /\ i' = 1
    /\ pc' = "submit"
    /\ UNCHANGED <<node_list, caller, exc, exitStatus, failure, errNode, cluster,
                   tested, requested, settled, jobs, waited, nHandles, shutdowns,
                   runs, runHandle, noops>>
    /\ UNCHANGED <<scanVars, classVars>>

\* cluster_test: job = submit_job_id_node(...); jobs.append(job)
Submit ==
    /\ pc = "submit"
    /\ ~LoopDone(i)
    /\ \E job \in {NewJob(node_list[i]), NoJob} : jobs' = Append(jobs, job)
    /\ i' = i + 1
    /\ UNCHANGED <<node_list, pc, caller, exc, exitStatus, failure, errNode,
                   cluster, tested, requested, settled, waited, nHandles,
                   shutdowns, runs, runHandle, noops>>
    /\ UNCHANGED <<scanVars, classVars>>

\* cluster_test: if None in jobs: raise ConnectionError(... node ...)
CheckNone ==
    /\ pc = "submit"
    /\ LoopDone(i)
    /\ IF \E k \in 1..Len(jobs) : jobs[k] = NoJob
       THEN /\ errNode' = node_list[index(jobs, NoJob)]
            /\ SysExit("submit")
            /\ UNCHANGED waited
       ELSE /\ pc' = "wait"
            /\ waited' = TRUE
            /\ UNCHANGED <<errNode, failure, exc, exitStatus>>
    /\ UNCHANGED <<node_list, caller, cluster, tested, i, requested, settled,
                   jobs, nHandles, shutdowns, runs, runHandle, noops>>
    /\ UNCHANGED <<scanVars, classVars>>

\* The backend: a pending job ends with a result (Finished), ends with an
\* exception (Terminated), or its node never answers (Silent).
JobResolve ==
    /\ pc \in {"submit", "wait"}
    /\ \E k \in 1..Len(jobs) :
          /\ jobs[k].status = "Created"
          /\ \E s \in {"Finished", "Terminated", "Silent"} :
                jobs' = [jobs EXCEPT ![k].status = s]
    /\ UNCHANGED <<node_list, pc, caller, exc, exitStatus, failure, errNode,
                   cluster, tested, i, requested, settled, waited, nHandles,
                   shutdowns, runs, runHandle, noops>>
    /\ UNCHANGED <<scanVars, classVars>>

\* cluster_test: while not self.cluster.wait(): time.sleep(0.1)
WaitReturn ==
    /\ pc = "wait"
    /\ AllResolved(jobs)
    /\ pc' = "verdict"
    /\ UNCHANGED <<node_list, caller, exc, exitStatus, failure, errNode, cluster,
                   tested, i, requested, settled, jobs, waited, nHandles,
                   shutdowns, runs, runHandle, noops>>
    /\ UNCHANGED <<scanVars, classVars>>

\* cluster_test: self.cluster.wait() raises.
WaitFail ==
    /\ pc = "wait"
    /\ SysExit("wait")
    /\ UNCHANGED <<node_list, caller, errNode, cluster, tested, i, requested,
                   settled, jobs, waited, nHandles, shutdowns, runs, runHandle,
                   noops>>
    /\ UNCHANGED <<scanVars, classVars>>

\* cluster_test: the log lines after the wait, then self.tested = True
Verdict ==
    /\ pc = "verdict"
    /\ tested' = TRUE
    /\ pc' = "finally"
    /\ UNCHANGED <<node_list, caller, exc, exitStatus, failure, errNode, cluster,
                   i, requested, settled, jobs, waited, nHandles, shutdowns,
                   runs, runHandle, noops>>
    /\ UNCHANGED <<scanVars, classVars>>

\* A shutdown block that leaves the handle alone.
ShutdownBlockSkipped ==
    /\ noops' = noops + 1
    /\ UNCHANGED shutdowns

\* if isinstance(self.cluster, dispy.JobCluster): self.cluster.shutdown()
ShutdownBlock ==
    IF IsJobCluster(cluster)
    THEN /\ shutdowns' = [shutdowns EXCEPT ![cluster] = @ + 1]
         /\ UNCHANGED noops
    ELSE /\ noops' = noops + 1
         /\ UNCHANGED shutdowns

\* cluster_test: the finally block.
Finally ==
    /\ pc = "finally"
    /\ ShutdownBlock
    /\ pc' = IF exc = "none" THEN "returned" ELSE "propagate"
    /\ UNCHANGED <<node_list, caller, exc, exitStatus, failure, errNode, cluster,
                   tested, i, requested, settled, jobs, waited, nHandles, runs,
                   runHandle>>
    /\ UNCHANGED <<scanVars, classVars>>

\* __init__ after cluster_test returned: the check of self.tested.
InitCheck ==
    /\ pc = "returned"
    /\ caller = "__init__"
    /\ IF tested
       THEN pc' = "constructed" /\ UNCHANGED exc
       ELSE pc' = "propagate" /\ exc' = "ConnectionError"
    /\ UNCHANGED <<node_list, caller, exitStatus, failure, errNode, cluster,
                   tested, i, requested, settled, jobs, waited, nHandles,
                   shutdowns, runs, runHandle, noops>>
    /\ UNCHANGED <<scanVars, classVars>>

\* cluster_test returns to an external caller.
ExternalReturn ==
    /\ pc = "returned"
    /\ caller = "external"
    /\ pc' = "constructed"
    /\ UNCHANGED <<node_list, caller, exc, exitStatus, failure, errNode, cluster,
                   tested, i, requested, settled, jobs, waited, nHandles,
                   shutdowns, runs, runHandle, noops>>
    /\ UNCHANGED <<scanVars, classVars>>

\* __del__: the object is dropped by its caller or at process exit.
Del ==
    /\ pc \in {"constructed", "propagate"}
    /\ ShutdownBlock
    /\ pc' = "deleted"
    /\ UNCHANGED <<node_list, caller, exc, exitStatus, failure, errNode, cluster,
                   tested, i, requested, settled, jobs, waited, nHandles, runs,
                   runHandle>>
    /\ UNCHANGED <<scanVars, classVars>>

Next ==
    \/ InitCall
    \/ ExternalCall
    \/ ConnectOk
    \/ ConnectFail
    \/ DiscoverRequest
    \/ DiscoverFail
    \/ Settle
    \/ ConnectReturn
    \/ Submit
    \/ CheckNone
    \/ JobResolve
    \/ WaitReturn
    \/ WaitFail
    \/ Verdict
    \/ Finally
    \/ InitCheck
    \/ ExternalReturn
    \/ Del

Spec == Init /\ [][Next]_vars

\* The steps the interpreter takes by itself when nothing raises.
ProgramStep ==
    \/ InitCall
    \/ ConnectOk
    \/ DiscoverRequest
    \/ Settle
    \/ ConnectReturn
    \/ Submit
    \/ CheckNone
    \/ WaitReturn
    \/ Verdict
    \/ Finally
    \/ InitCheck
    \/ ExternalReturn

\* The interpreter keeps running the program, and the backend settles the
\* fate of every pending job; nothing obliges a call to raise, a caller to
\* call again or the object to be dropped.
FairSpec == Spec /\ WF_vars(ProgramStep) /\ WF_vars(JobResolve)

(***************************************************************************)
(* Properties of the cluster verification.                                 *)
(***************************************************************************)
\* The current run is over: cluster_test has left its finally block.
RunEnded == pc \in {"returned", "propagate", "constructed", "deleted"}

\* C1: a run reported as verified (cluster_test returned with tested = True)
\* has a job with outcome Success (status Finished) for every node of the
\* node list; no job of it ended in failure.
C1_VerifiedOnlyIfAllSuccess ==
    (pc = "returned" /\ tested) =>
        /\ Len(jobs) = Len(node_list)
        /\ \A k \in 1..Len(jobs) : jobs[k].status = "Finished"

\* C2: once the wait is entered it ends: the run goes on to its verdict or
\* failure and reaches the shutdown of the finally block, also when a node
\* never answers.
C2_WaitEnds == (pc = "wait") ~> (pc = "finally")

\* Position of the first submission that returned no handle.
FirstNone == CHOOSE k \in 1..Len(jobs) :
                 jobs[k] = NoJob /\ \A m \in 1..(k - 1) : jobs[m] # NoJob

C4_ShutdownExactlyOnce ==
    \A h \in Handles :
        /\ shutdowns[h] <= 1
        /\ (pc = "deleted" /\ h <= nHandles) => shutdowns[h] = 1

\* C5: when the run is over and connect created a handle in it, that handle
\* has been shut down.
C5_ShutdownBeforeRunEnds ==
    (RunEnded /\ runHandle # 0) => shutdowns[runHandle] >= 1

\* An exception after the handle was created, with jobs still pending: the
\* wait raised, and the handle was shut down.
C5_Witness ==
    /\ pc = "propagate"
    /\ failure = "wait"
    /\ runHandle # 0
    /\ \E k \in 1..Len(jobs) : jobs[k].status = "Created"
    /\ shutdowns[runHandle] >= 1

\* C6: a shutdown block run on a coordinator that holds no handle, or whose
\* handle is already shut down, performs no operation on the backend.
C6_ShutdownIdempotent ==
    [][(pc \in {"finally", "constructed", "propagate"}
          /\ (cluster = 0 \/ shutdowns[cluster] >= 1))
       => shutdowns' = shutdowns]_vars

\* C7: a failed run does not terminate the process: no sys.exit is made
\* and no SystemExit leaves cluster_test.
C7_FailureReturned ==
    (failure # "none") => (exitStatus = -1 /\ exc # "SystemExit")

\* C8: a job is submitted only after a discovery request and its settle delay
\* were completed for every node of the list on the handle connect created,
\* the wait begins only after a submission for every node, and the verdict
\* comes only after the wait.
C8_StepOrder ==
    /\ pc \in {"discover", "settle"} => (runHandle # 0 /\ cluster = runHandle)
    /\ (pc = "submit" \/ Len(jobs) > 0) =>
          /\ requested = Len(node_list)
          /\ settled = Len(node_list)
    /\ waited => Len(jobs) = Len(node_list)
    /\ pc = "verdict" => waited
    /\ pc \in {"connect", "discover", "settle", "submit", "wait", "verdict"} =>
          (runHandle # 0 => shutdowns[runHandle] = 0)

\* The wait of a run over several nodes, each discovered and settled.
C8_Witness ==
    /\ pc = "wait"
    /\ Len(node_list) >= 2
    /\ settled = Len(node_list)
    /\ Len(jobs) = Len(node_list)

\* C9: when the submit loop is over, every node named in the node list has
\* exactly one job and no two jobs of the run share a job id.
C9_OneJobPerNodeDistinctIds ==
    (pc = "wait") =>
        /\ \A k \in 1..Len(node_list) :
              Cardinality({l \in 1..Len(jobs) : jobs[l].node = node_list[k]}) = 1
        /\ \A k, l \in 1..Len(jobs) : k # l => jobs[k].id # jobs[l].id

\* C13: cluster_test returns normally only with tested = True and no failure;
\* a failed run has left through sys.exit(1), and the ConnectionError of
\* __init__ (tested is False after cluster_test returned) is never raised.
C13_ReturnsOnlyVerified ==
    /\ (pc = "returned") => (tested /\ exc = "none" /\ failure = "none")
    /\ (RunEnded /\ failure # "none") =>
          /\ exc = "SystemExit"
          /\ exitStatus = 1
          /\ pc \in {"propagate", "deleted"}
    /\ exc # "ConnectionError"

\* cluster_test has returned to __init__, which is about to check tested.
C13_Witness ==
    /\ pc = "returned"
    /\ caller = "__init__"
    /\ runs = 1
    /\ tested

\* The handles connect created that were never shut down.
LiveHandles == {h \in 1..nHandles : shutdowns[h] = 0}

\* C14: at most one handle is not shut down at any time; when connect is
\* about to create a handle every earlier one has been shut down; and after a
\* normal return of cluster_test the handle in self.cluster is shut down.
C14_OneLiveHandle ==
    /\ Cardinality(LiveHandles) <= 1
    /\ (pc = "connect") => LiveHandles = {}
    /\ (pc \in {"returned", "constructed"}) =>
          (cluster # 0 /\ shutdowns[cluster] >= 1)

\* The second run, called on the constructed object, holds its own handle
\* while the handle of the first run is shut down.
C14_Witness ==
    /\ runs = 2
    /\ caller = "external"
    /\ pc = "discover"
    /\ cluster = 2
    /\ shutdowns[1] >= 1
    /\ shutdowns[2] = 0

(***************************************************************************)
(* RinexArchive: the filename parsers.                                     *)
(***************************************************************************)
Digit == {"0", "1", "2", "3", "4", "5", "6", "7", "8", "9"}

Letter ==
    {"a", "b", "c", "d", "e", "f", "g", "h", "i", "j", "k", "l", "m",
     "n", "o", "p", "q", "r", "s", "t", "u", "v", "w", "x", "y", "z",
     "A", "B", "C", "D", "E", "F", "G", "H", "I", "J", "K", "L", "M",
     "N", "O", "P", "Q", "R", "S", "T", "U", "V", "W", "X", "Y", "Z"}

\* The characters \w matches.
WordChar == Letter \cup Digit \cup {"_"}

\* One pattern element against one character: \w, \d or a literal.
ClassMatch(tag, c) ==
    CASE tag = "\\w" -> c \in WordChar
      [] tag = "\\d" -> c \in Digit
      [] OTHER -> c = tag

\* (\w{4})(\d{3})(\w{1})\.(\d{2})([d])\.[Z]
CrinexPattern ==
    <<"\\w", "\\w", "\\w", "\\w", "\\d", "\\d", "\\d", "\\w", ".",
      "\\d", "\\d", "d", ".", "Z">>

\* (\w{4})(\d{3})(\w{1})\.(\d{2})([o])
RinexPattern ==
    <<"\\w", "\\w", "\\w", "\\w", "\\d", "\\d", "\\d", "\\w", ".",
      "\\d", "\\d", "o">>

\* $ : the end of the string, or just before a newline that ends it
AtEnd(s, k) == k = Len(s) + 1 \/ (k = Len(s) /\ s[k] = "\n")

\* The pattern, followed by $, matches s from position k on.
MatchAt(pat, s, k) ==
    /\ k + Len(pat) - 1 <= Len(s)
    /\ \A m \in 1..Len(pat) : ClassMatch(pat[m], s[k + m - 1])
    /\ AtEnd(s, k + Len(pat))

\* The five groups of a match that starts at position k.
Groups(s, k) ==
    <<SubSeq(s, k, k + 3), SubSeq(s, k + 4, k + 6), SubSeq(s, k + 7, k + 7),
      SubSeq(s, k + 9, k + 10), SubSeq(s, k + 11, k + 11)>>

\* re.findall: the matches from left to right, none overlapping another.
RECURSIVE findallFrom(_, _, _)
findallFrom(pat, s, k) ==
    IF k > Len(s) THEN <<>>
    ELSE IF MatchAt(pat, s, k)
         THEN <<Groups(s, k)>> \o findallFrom(pat, s, k + Len(pat))
         ELSE findallFrom(pat, s, k + 1)

findall(pat, s) == findallFrom(pat, s, 1)

\* The first match, or None; None is the empty tuple here.
parse_crinex_filename(filename) ==
    LET sfile == findall(CrinexPattern, filename)
    IN  IF sfile # <<>> THEN sfile[1] ELSE <<>>

\* The first match, or the empty list.
parse_rinex_filename(filename) ==
    LET sfile == findall(RinexPattern, filename)
    IN  IF sfile # <<>> THEN sfile[1] ELSE <<>>

\* Python's truth value of a tuple, a list or None.
Truthy(x) == x # <<>>

(***************************************************************************)
(* RinexArchive.scan_archive_struct                                        *)
(***************************************************************************)
CrinexName ==
    <<"a", "b", "c", "d", "0", "0", "1", "a", ".", "2", "1", "d", ".", "Z">>
RinexName == <<"a", "b", "c", "d", "0", "0", "1", "a", ".", "2", "1", "o">>
PrefixedName == <<"x">> \o CrinexName
OtherName == <<"r", "e", "a", "d", "m", "e", ".", "t", "x", "t">>
DirName == <<"2", "0", "2", "1">>

FileNames == {CrinexName, RinexName, PrefixedName, OtherName}

\* What a directory entry can be: a directory (listable or not) or a file.
EntryKinds ==
    {[kind |-> "dir", readable |-> r, name |-> DirName] : r \in BOOLEAN}
    \cup {[kind |-> "file", readable |-> TRUE, name |-> n] : n \in FileNames}

\* Entries are numbered in listing order; entry k lies in directory
\* parent, where 0 is rootdir, and a parent is listed before its entries.
TreesOf(n) ==
    {t \in [1..n -> [parent : 0..(n - 1), e : EntryKinds]] :
        \A k \in 1..n :
            /\ t[k].parent < k
            /\ t[k].parent # 0 => t[t[k].parent].e.kind = "dir"}

Trees == UNION {TreesOf(n) : n \in 0..MaxEntries}

\* The entries os.scandir(dir) has yet to yield, after position pos.
Pending(dir, pos) == {k \in (pos + 1)..Len(tree) : tree[k].parent = dir}

Min(S) == CHOOSE k \in S : \A m \in S : k <= m

\* A call of scan_archive_struct: its directory, its place in the listing and
\* its list file.
Frame(dir) == [dir |-> dir, pos |-> 0, file |-> <<>>]

\* An extend that loses the list it is given.
extendDropped(a, b) == a

\* list.extend
extend(a, b) == a \o b

ClusterIdle ==
    /\ node_list = <<>>
    /\ pc = "none"
    /\ caller = "none"
    /\ exc = "none"
    /\ exitStatus = -1
    /\ failure = "none"
    /\ errNode = <<>>
    /\ cluster = 0
    /\ tested = FALSE
    /\ i = 1
    /\ requested = 0
    /\ settled = 0
    /\ jobs = <<>>
    /\ waited = FALSE
    /\ nHandles = 0
    /\ shutdowns = [h \in Handles |-> 0]
    /\ runs = 0
    /\ runHandle = 0
    /\ noops = 0

\* The caller is about to call scan_archive_struct(rootdir).
ScanInit ==
    /\ tree \in Trees
    /\ stack = <<>>
    /\ result = <<>>
    /\ scanPc = "start"
    /\ ClusterIdle
    /\ ClassIdle

\* scan_archive_struct(rootdir) is called: os.scandir(rootdir) opens.
ScanCall ==
    /\ scanPc = "start"
    /\ stack' = <<Frame(0)>>
    /\ scanPc' = "scanning"
    /\ UNCHANGED <<tree, result, exitStatus>>

\* The loop body for a subdirectory that can be listed: the recursive call.
ScanDescend ==
    /\ scanPc = "scanning"
    /\ LET top == stack[Len(stack)]
       IN  /\ Pending(top.dir, top.pos) # {}
           /\ LET k == Min(Pending(top.dir, top.pos))
              IN  /\ tree[k].e.kind = "dir"
                  /\ tree[k].e.readable
                  /\ stack' = Append([stack EXCEPT ![Len(stack)].pos = k],
                                     Frame(k))
    /\ UNCHANGED <<tree, result, scanPc, exitStatus>>

\* The recursive call raises in os.scandir: except Exception, sys.exit(1).
ScanFail ==
    /\ scanPc = "scanning"
    /\ LET top == stack[Len(stack)]
       IN  /\ Pending(top.dir, top.pos) # {}
           /\ LET k == Min(Pending(top.dir, top.pos))
              IN  /\ tree[k].e.kind = "dir"
                  /\ ~tree[k].e.readable
    /\ stack' = <<>>
    /\ scanPc' = "exited"
    /\ exitStatus' = 1
    /\ UNCHANGED <<tree, result>>

\* The loop body for a file: append it when parse_crinex_filename matches.
ScanFile ==
    /\ scanPc = "scanning"
    /\ LET top == stack[Len(stack)]
       IN  /\ Pending(top.dir, top.pos) # {}
           /\ LET k == Min(Pending(top.dir, top.pos))
              IN  /\ tree[k].e.kind = "file"
                  /\ stack' =
                       [stack EXCEPT
                          ![Len(stack)].pos = k,
                          ![Len(stack)].file =
                              IF Truthy(parse_crinex_filename(tree[k].e.name))
                              THEN Append(@, k) ELSE @]
    /\ UNCHANGED <<tree, result, scanPc, exitStatus>>

\* return file: to the calling scan_archive_struct, which extends its list,
\* or to the caller of the outermost call.
ScanReturn ==
    /\ scanPc = "scanning"
    /\ LET top == stack[Len(stack)]
       IN  /\ Pending(top.dir, top.pos) = {}
           /\ IF Len(stack) = 1
              THEN /\ result' = top.file
                   /\ stack' = <<>>
                   /\ scanPc' = "returned"
              ELSE /\ stack' =
                        [SubSeq(stack, 1, Len(stack) - 1) EXCEPT
                           ![Len(stack) - 1].file = extend(@, top.file)]
                   /\ UNCHANGED <<result, scanPc>>
    /\ UNCHANGED <<tree, exitStatus>>

scanFrame == <<node_list, pc, caller, exc, failure, errNode, cluster, tested,
               i, requested, settled, jobs, waited, nHandles, shutdowns, runs,
               runHandle, noops, fileArg, parser, parsed>>

ScanNext ==
    \/ ScanCall /\ UNCHANGED scanFrame
    \/ ScanDescend /\ UNCHANGED scanFrame
    \/ ScanFail /\ UNCHANGED scanFrame
    \/ ScanFile /\ UNCHANGED scanFrame
    \/ ScanReturn /\ UNCHANGED scanFrame

ScanSpec == ScanInit /\ [][ScanNext]_vars

(***************************************************************************)
(* Properties of the archive scan.                                         *)
(***************************************************************************)
\* The files of the tree, at any depth.
Files == {k \in 1..Len(tree) : tree[k].e.kind = "file"}

Returned == {result[k] : k \in 1..Len(result)}

NoDuplicates == \A k, l \in 1..Len(result) : k # l => result[k] # result[l]

\* The last 14 characters of t are a 4-character station, a 3-digit day, a
\* session character, ".", a 2-digit year and "d.Z".
CompressedTail(t) ==
    /\ Len(t) >= 14
    /\ LET u == SubSeq(t, Len(t) - 13, Len(t))
       IN  /\ \A m \in {1, 2, 3, 4, 8} : u[m] \in WordChar
           /\ \A m \in {5, 6, 7, 10, 11} : u[m] \in Digit
           /\ u[9] = "." /\ u[12] = "d" /\ u[13] = "." /\ u[14] = "Z"

\* The name ends in the compressed form, a final newline set aside.
EndsInCompressedForm(name) ==
    \/ CompressedTail(name)
    \/ /\ name # <<>>
       /\ name[Len(name)] = "\n"
       /\ CompressedTail(SubSeq(name, 1, Len(name) - 1))

RECURSIVE Reachable(_)
Reachable(k) ==
    \/ tree[k].parent = 0
    \/ /\ tree[tree[k].parent].e.readable
       /\ Reachable(tree[k].parent)

\* C11: a directory that cannot be listed does not abort the scan: the scan
\* never ends in a process exit, and when it has returned it has returned
\* every compressed file reachable through the directories that can be listed.
C11_UnreadableDoesNotAbort ==
    /\ scanPc # "exited"
    /\ (scanPc = "returned") =>
          {k \in Files : Reachable(k) /\ EndsInCompressedForm(tree[k].e.name)}
              \subseteq Returned

(***************************************************************************)
(* The filename parsers on their own.                                      *)
(***************************************************************************)
NamePrefixes == {<<>>, <<"x">>}
Stations == {<<"a", "b", "c", "d">>, <<"a", "_", "1", "Z">>, <<"a", "-", "c", "d">>}
Days == {<<"0", "0", "1">>, <<"3", "6", "a">>}
Sessions == {<<"a">>, <<"0">>}
Years == {<<"2", "1">>, <<"2", "x">>}
Tails == {<<"d", ".", "Z">>, <<"o">>, <<"d", ".", "z">>, <<"d">>, <<"O">>}
Trailers == {<<>>, <<"\n">>, <<"x">>}

\* The names the parsers are called with: built like an archive file name,
\* right or wrong in each part, and two names of another kind.
ParserInputs ==
    {p \o st \o d \o se \o <<".">> \o y \o t \o tr :
        p \in NamePrefixes, st \in Stations, d \in Days, se \in Sessions,
        y \in Years, t \in Tails, tr \in Trailers}
    \cup {<<>>, OtherName}

\* A caller holds a file name and has called no parser yet.
ClassInit ==
    /\ fileArg \in ParserInputs
    /\ parser = "none"
    /\ parsed = <<>>
    /\ ClusterIdle
    /\ ScanIdle

\* A call of parse_crinex_filename
ParseCrinex ==
    /\ parser = "none"
    /\ parser' = "crinex"
    /\ parsed' = parse_crinex_filename(fileArg)
    /\ UNCHANGED <<fileArg, clusterVars, scanVars>>

\* A call of parse_rinex_filename
ParseRinex ==
    /\ parser = "none"
    /\ parser' = "rinex"
    /\ parsed' = parse_rinex_filename(fileArg)
    /\ UNCHANGED <<fileArg, clusterVars, scanVars>>

ClassNext ==
    \/ ParseCrinex
    \/ ParseRinex

ClassSpec == ClassInit /\ [][ClassNext]_vars

\* The whole name is in the compressed form.
WholeCompressed(n) == Len(n) = 14 /\ CompressedTail(n)

\* The whole name is in the plain form.
WholePlain(n) ==
    /\ Len(n) = 12
    /\ \A m \in {1, 2, 3, 4, 8} : n[m] \in WordChar
    /\ \A m \in {5, 6, 7, 10, 11} : n[m] \in Digit
    /\ n[9] = "." /\ n[12] = "o"

\* C12: a parser accepts a name only when the whole name conforms to its
\* grammar, and the station, day of year, session and year it extracts are
\* the characters 1-4, 5-7, 8 and 10-11 of the name.
C12_ClassifierAnchored ==
    (parser \in {"crinex", "rinex"} /\ Truthy(parsed)) =>
        /\ parser = "crinex" => WholeCompressed(fileArg)
        /\ parser = "rinex" => WholePlain(fileArg)
        /\ parsed[1] = SubSeq(fileArg, 1, 4)
        /\ parsed[2] = SubSeq(fileArg, 5, 7)
        /\ parsed[3] = SubSeq(fileArg, 8, 8)
        /\ parsed[4] = SubSeq(fileArg, 10, 11)

====
